---------------------------- MODULE Spec2Model ----------------------------
(***************************************************************************)
(* Verification model of content/contest/template.cpp: the ordered_set     *)
(* alias (a red-black tree with order statistics), gcd / lcm, randInt and  *)
(* main.  The fragments of the file share no data, so each is exercised by *)
(* a specification of its own over the same variables:                     *)
(*   Spec      ordered_set<int>: insert, erase, order_of_key, find_by_order*)
(*   NumSpec   gcd (one recursive call per step) and lcm                   *)
(*   NumFair   NumSpec with the fairness of a running call                 *)
(*   RandSpec  rng and randInt                                             *)
(*   MainSpec  static initialisation, main, solve                          *)
(*   MainFair  MainSpec with the fairness of a running process             *)
(***************************************************************************)
EXTENDS Integers, Sequences, FiniteSets, TLC

\* Keys that are inserted into and erased from the ordered_set: 1..MaxKey.
MaxKey == 5
\* Width in bits of `int` in the model.  The file makes int a 64-bit
\* long long; the model keeps two's-complement arithmetic at a width whose
\* values TLC can enumerate.
IntBits == 5
\* Width in bits of one output word of rng in the model (mt19937 yields
\* 32-bit words, narrower than int).
GenBits == 2

VARIABLES
  os,        \* the ordered_set<int>: head node, nodes, m_size
  keys,      \* history: the values the set should hold
  erased,    \* history: some erase call has been made
  lastOp,    \* history: the last call on the set and what it returned
  A, B,      \* arguments of the running gcd / lcm call
  X, Y,      \* arguments of the innermost gcd activation
  depth,     \* number of recursive gcd calls made so far
  npc,       \* position of the numeric call
  res,       \* outcome of the numeric call
  rng,       \* the generator: the word its next invocation yields
  L, R,      \* arguments of the last randInt call
  ret,       \* outcome of the last randInt call
  rpc,       \* position of the randInt call
  ONLINE_JUDGE, \* build flag
  pc,        \* position in the process (static initialisation, main)
  main_t,    \* main's local t
  streams,   \* standard streams: flags, ties, what they are attached to
  solved,    \* history: number of calls of solve
  written,   \* number of characters written to standard output
  status     \* exit status of the process, once it has exited

setVars  == <<os, keys, erased, lastOp>>
numVars  == <<A, B, X, Y, depth, npc, res>>
randVars == <<rng, L, R, ret, rpc>>
mainVars == <<ONLINE_JUDGE, pc, main_t, streams, solved, written, status>>
vars     == <<os, keys, erased, lastOp, A, B, X, Y, depth, npc, res,
              rng, L, R, ret, rpc, ONLINE_JUDGE, pc, main_t, streams, solved,
              written, status>>

\* 2^n
RECURSIVE Pow2(_)
Pow2(n) == IF n = 0 THEN 1 ELSE 2 * Pow2(n - 1)

(***************************************************************************)
(* ordered_set<T> = tree<T, null_type, less<T>, rb_tree_tag,               *)
(*                       tree_order_statistics_node_update>                *)
(* The alias instantiates the library's red-black tree over a head node:   *)
(* m_p_head's parent is the root, its left child the minimum and its      *)
(* right child the maximum.                                                *)
(* Every node carries m_red and the metadata of the node-update policy     *)
(* (the size of its subtree).  A node is named by the value it stores: a   *)
(* node's m_value never changes and the values of a set are distinct.      *)
(***************************************************************************)
Keys  == 1..MaxKey
Nil   == 0
m_p_head  == -1
Nodes == Keys \cup {m_p_head}

\* less<T>
Less(u, v) == u < v

\* The freshly constructed container.
initialize ==
  [left   |-> [n \in Nodes |-> IF n = m_p_head THEN m_p_head ELSE Nil],
   right  |-> [n \in Nodes |-> IF n = m_p_head THEN m_p_head ELSE Nil],
   parent |-> [n \in Nodes |-> Nil],
   red    |-> [n \in Nodes |-> n = m_p_head],
   meta   |-> [n \in Nodes |-> 0],
   size   |-> 0]

\* A node update that forgets the right subtree.
apply_update_left_only(tr, n) ==
  LET l_it   == tr.left[n]
      l_rank == IF l_it = Nil THEN 0 ELSE tr.meta[l_it]
  IN  [tr EXCEPT !.meta[n] = 1 + l_rank]

\* tree_order_statistics_node_update::operator(): metadata = 1 + l + r
apply_update(tr, n) ==
  LET l_it   == tr.left[n]
      r_it   == tr.right[n]
      l_rank == IF l_it = Nil THEN 0 ELSE tr.meta[l_it]
      r_rank == IF r_it = Nil THEN 0 ELSE tr.meta[r_it]
  IN  [tr EXCEPT !.meta[n] = 1 + l_rank + r_rank]

\* An update that stops at the node it is given.
update_to_top_once(tr, p_nd) ==
  IF p_nd = m_p_head THEN tr ELSE apply_update(tr, p_nd)

RECURSIVE update_to_top(_, _)
update_to_top(tr, p_nd) ==
  IF p_nd = m_p_head THEN tr
  ELSE update_to_top(apply_update(tr, p_nd), tr.parent[p_nd])

\* Sequencing: F applied to the value of e (a local of the translated code).
With(e, F(_)) == F(e)

rotate_left(tr, p_x) ==
  With(tr.right[p_x], LAMBDA p_y :
  With([tr EXCEPT !.right[p_x] = tr.left[p_y]], LAMBDA t1 :
  With(IF t1.left[p_y] # Nil
       THEN [t1 EXCEPT !.parent[t1.left[p_y]] = p_x] ELSE t1, LAMBDA t2 :
  With([t2 EXCEPT !.parent[p_y] = t2.parent[p_x]], LAMBDA t3 :
  With(IF p_x = t3.parent[m_p_head]
       THEN [t3 EXCEPT !.parent[m_p_head] = p_y]
       ELSE IF p_x = t3.left[t3.parent[p_x]]
       THEN [t3 EXCEPT !.left[t3.parent[p_x]] = p_y]
       ELSE [t3 EXCEPT !.right[t3.parent[p_x]] = p_y], LAMBDA t4 :
  With([t4 EXCEPT !.left[p_y] = p_x, !.parent[p_x] = p_y], LAMBDA t5 :
  With(apply_update(t5, p_x), LAMBDA t6 :
  apply_update(t6, t6.parent[p_x]))))))))

rotate_right(tr, p_x) ==
  With(tr.left[p_x], LAMBDA p_y :
  With([tr EXCEPT !.left[p_x] = tr.right[p_y]], LAMBDA t1 :
  With(IF t1.right[p_y] # Nil
       THEN [t1 EXCEPT !.parent[t1.right[p_y]] = p_x] ELSE t1, LAMBDA t2 :
  With([t2 EXCEPT !.parent[p_y] = t2.parent[p_x]], LAMBDA t3 :
  With(IF p_x = t3.parent[m_p_head]
       THEN [t3 EXCEPT !.parent[m_p_head] = p_y]
       ELSE IF p_x = t3.right[t3.parent[p_x]]
       THEN [t3 EXCEPT !.right[t3.parent[p_x]] = p_y]
       ELSE [t3 EXCEPT !.left[t3.parent[p_x]] = p_y], LAMBDA t4 :
  With([t4 EXCEPT !.right[p_y] = p_x, !.parent[p_x] = p_y], LAMBDA t5 :
  With(apply_update(t5, p_x), LAMBDA t6 :
  apply_update(t6, t6.parent[p_x]))))))))

\* Allocates the node of value v: both children null, ++m_size.
get_new_node_for_leaf_insert(tr, v) ==
  [tr EXCEPT !.left[v] = Nil, !.right[v] = Nil, !.size = tr.size + 1]

insert_imp_empty(tr, v) ==
  With(get_new_node_for_leaf_insert(tr, v), LAMBDA t0 :
  With([t0 EXCEPT !.left[m_p_head] = v, !.right[m_p_head] = v,
                  !.parent[m_p_head] = v], LAMBDA t1 :
  With([t1 EXCEPT !.parent[v] = m_p_head, !.left[v] = Nil, !.right[v] = Nil],
       LAMBDA t2 :
  update_to_top(t2, t2.parent[m_p_head]))))

insert_leaf_new(tr, v, p_nd, left_nd) ==
  With(get_new_node_for_leaf_insert(tr, v), LAMBDA t0 :
  With(IF left_nd
       THEN [t0 EXCEPT !.left[p_nd] = v,
                       !.left[m_p_head] = IF @ = p_nd THEN v ELSE @]
       ELSE [t0 EXCEPT !.right[p_nd] = v,
                       !.right[m_p_head] = IF @ = p_nd THEN v ELSE @], LAMBDA t1 :
  With([t1 EXCEPT !.parent[v] = p_nd, !.left[v] = Nil, !.right[v] = Nil],
       LAMBDA t2 :
  update_to_top(t2, v))))

\* The descent shared by insert_leaf and find: the last node not less than v.
RECURSIVE descend(_, _, _, _)
descend(tr, v, p_nd, p_pot) ==
  IF p_nd = Nil THEN p_pot
  ELSE IF ~Less(p_nd, v) THEN descend(tr, v, tr.left[p_nd], p_nd)
  ELSE descend(tr, v, tr.right[p_nd], p_pot)

RECURSIVE rightmost(_, _)
rightmost(tr, p_nd) ==
  IF tr.right[p_nd] # Nil THEN rightmost(tr, tr.right[p_nd]) ELSE p_nd

RECURSIVE leftmost(_, _)
leftmost(tr, p_nd) ==
  IF tr.left[p_nd] # Nil THEN leftmost(tr, tr.left[p_nd]) ELSE p_nd

\* bin_search_tree::insert_leaf: [tr, nd, second]
insert_leaf(tr, v) ==
  IF tr.size = 0
  THEN [tr |-> insert_imp_empty(tr, v), nd |-> v, second |-> TRUE]
  ELSE
    With(descend(tr, v, tr.parent[m_p_head], m_p_head), LAMBDA p_pot :
    IF p_pot = m_p_head
    THEN [tr |-> insert_leaf_new(tr, v, tr.right[m_p_head], FALSE),
          nd |-> v, second |-> TRUE]
    ELSE IF ~Less(v, p_pot)
    THEN [tr |-> tr, nd |-> p_pot, second |-> FALSE]
    ELSE IF tr.left[p_pot] = Nil
    THEN [tr |-> insert_leaf_new(tr, v, p_pot, TRUE),
          nd |-> v, second |-> TRUE]
    ELSE [tr |-> insert_leaf_new(tr, v, rightmost(tr, tr.left[p_pot]), FALSE),
          nd |-> v, second |-> TRUE])

\* The uncle is red: recolour, and go on from the grandparent.
insert_recolour(tr, p_nd, p_y) ==
  [tr EXCEPT !.red[tr.parent[p_nd]] = FALSE,
             !.red[p_y] = FALSE,
             !.red[tr.parent[tr.parent[p_nd]]] = TRUE]

\* The uncle is black: the parent becomes black, the grandparent red.
insert_repaint(tr, p_nd) ==
  [tr EXCEPT !.red[tr.parent[p_nd]] = FALSE,
             !.red[tr.parent[tr.parent[p_nd]]] = TRUE]

\* The while loop of rb_tree::insert_fixup: [tr, nd] when it ends.
RECURSIVE insert_fixup_loop(_, _)
insert_fixup_loop(tr, p_nd) ==
  IF ~(p_nd # tr.parent[m_p_head] /\ tr.red[tr.parent[p_nd]])
  THEN [tr |-> tr, nd |-> p_nd]
  ELSE IF tr.parent[p_nd] = tr.left[tr.parent[tr.parent[p_nd]]]
  THEN
    With(tr.right[tr.parent[tr.parent[p_nd]]], LAMBDA p_y :
    IF p_y # Nil /\ tr.red[p_y]
    THEN insert_fixup_loop(insert_recolour(tr, p_nd, p_y),
                           tr.parent[tr.parent[p_nd]])
    ELSE
      With(IF p_nd = tr.right[tr.parent[p_nd]]
           THEN [tr |-> rotate_left(tr, tr.parent[p_nd]), nd |-> tr.parent[p_nd]]
           ELSE [tr |-> tr, nd |-> p_nd], LAMBDA s :
      With(insert_repaint(s.tr, s.nd), LAMBDA u :
      insert_fixup_loop(rotate_right(u, u.parent[u.parent[s.nd]]), s.nd))))
  ELSE
    With(tr.left[tr.parent[tr.parent[p_nd]]], LAMBDA p_y :
    IF p_y # Nil /\ tr.red[p_y]
    THEN insert_fixup_loop(insert_recolour(tr, p_nd, p_y),
                           tr.parent[tr.parent[p_nd]])
    ELSE
      With(IF p_nd = tr.left[tr.parent[p_nd]]
           THEN [tr |-> rotate_right(tr, tr.parent[p_nd]), nd |-> tr.parent[p_nd]]
           ELSE [tr |-> tr, nd |-> p_nd], LAMBDA s :
      With(insert_repaint(s.tr, s.nd), LAMBDA u :
      insert_fixup_loop(rotate_left(u, u.parent[u.parent[s.nd]]), s.nd))))

insert_fixup(tr, p_nd) ==
  With(insert_fixup_loop(tr, p_nd), LAMBDA s :
  With(update_to_top(s.tr, s.nd), LAMBDA t1 :
  [t1 EXCEPT !.red[t1.parent[m_p_head]] = FALSE]))

\* rb_tree::insert: [tr, second]
insert(tr, v) ==
  With(insert_leaf(tr, v), LAMBDA ins_pair :
  IF ins_pair.second
  THEN [tr |-> insert_fixup([ins_pair.tr EXCEPT !.red[ins_pair.nd] = TRUE],
                            ins_pair.nd),
        second |-> TRUE]
  ELSE [tr |-> ins_pair.tr, second |-> FALSE])

\* bin_search_tree::find: the node holding r_key, or m_p_head (end()).
find(tr, r_key) ==
  With(descend(tr, r_key, tr.parent[m_p_head], m_p_head), LAMBDA p_pot :
  IF p_pot # m_p_head /\ Less(r_key, p_pot) THEN m_p_head ELSE p_pot)

\* The walk up of the iterator's inc: [nd, y] when the loop ends.
RECURSIVE inc_up(_, _, _)
inc_up(tr, p_nd, p_y) ==
  IF p_nd = tr.right[p_y] THEN inc_up(tr, p_y, tr.parent[p_y])
  ELSE [nd |-> p_nd, y |-> p_y]

\* operator++ of the forward iterator
inc(tr, p_nd) ==
  IF tr.red[p_nd] /\ tr.parent[tr.parent[p_nd]] = p_nd
  THEN tr.left[p_nd]
  ELSE IF tr.right[p_nd] # Nil
  THEN leftmost(tr, tr.right[p_nd])
  ELSE With(inc_up(tr, p_nd, tr.parent[p_nd]), LAMBDA s :
       IF tr.right[s.nd] # s.y THEN s.y ELSE s.nd)

RECURSIVE dec_up(_, _, _)
dec_up(tr, p_nd, p_y) ==
  IF p_nd = tr.left[p_y] THEN dec_up(tr, p_y, tr.parent[p_y])
  ELSE [nd |-> p_nd, y |-> p_y]

\* operator-- of the forward iterator
dec(tr, p_nd) ==
  IF tr.red[p_nd] /\ tr.parent[tr.parent[p_nd]] = p_nd
  THEN tr.right[p_nd]
  ELSE IF tr.left[p_nd] # Nil
  THEN rightmost(tr, tr.left[p_nd])
  ELSE With(dec_up(tr, p_nd, tr.parent[p_nd]), LAMBDA s :
       IF tr.left[s.nd] # s.y THEN s.y ELSE s.nd)

update_min_max_for_erased_node(tr, p_z) ==
  IF tr.size = 1
  THEN [tr EXCEPT !.left[m_p_head] = m_p_head, !.right[m_p_head] = m_p_head]
  ELSE IF tr.left[m_p_head] = p_z
  THEN [tr EXCEPT !.left[m_p_head] = inc(tr, p_z)]
  ELSE IF tr.right[m_p_head] = p_z
  THEN [tr EXCEPT !.right[m_p_head] = dec(tr, p_z)]
  ELSE tr

is_effectively_black(tr, p_nd) == p_nd = Nil \/ ~tr.red[p_nd]

\* remove_fixup, p_x a left child, the sibling's children not both black:
\* the statements up to the break.
remove_fixup_left(tr, p_new_x_parent) ==
  With(tr.right[p_new_x_parent], LAMBDA p_w :
  With(IF is_effectively_black(tr, tr.right[p_w])
       THEN rotate_right(
              [(IF tr.left[p_w] # Nil
                THEN [tr EXCEPT !.red[tr.left[p_w]] = FALSE] ELSE tr)
                 EXCEPT !.red[p_w] = TRUE],
              p_w)
       ELSE tr, LAMBDA t2 :
  With(t2.right[p_new_x_parent], LAMBDA w2 :
  With([t2 EXCEPT !.red[w2] = t2.red[p_new_x_parent]], LAMBDA t3 :
  With([t3 EXCEPT !.red[p_new_x_parent] = FALSE], LAMBDA t4 :
  With(IF t4.right[w2] # Nil
       THEN [t4 EXCEPT !.red[t4.right[w2]] = FALSE] ELSE t4, LAMBDA t5 :
  update_to_top(rotate_left(t5, p_new_x_parent), p_new_x_parent)))))))

\* remove_fixup, p_x a right child: the mirror image.
remove_fixup_right(tr, p_new_x_parent) ==
  With(tr.left[p_new_x_parent], LAMBDA p_w :
  With(IF is_effectively_black(tr, tr.left[p_w])
       THEN rotate_left(
              [(IF tr.right[p_w] # Nil
                THEN [tr EXCEPT !.red[tr.right[p_w]] = FALSE] ELSE tr)
                 EXCEPT !.red[p_w] = TRUE],
              p_w)
       ELSE tr, LAMBDA t2 :
  With(t2.left[p_new_x_parent], LAMBDA w2 :
  With([t2 EXCEPT !.red[w2] = t2.red[p_new_x_parent]], LAMBDA t3 :
  With([t3 EXCEPT !.red[p_new_x_parent] = FALSE], LAMBDA t4 :
  With(IF t4.left[w2] # Nil
       THEN [t4 EXCEPT !.red[t4.left[w2]] = FALSE] ELSE t4, LAMBDA t5 :
  update_to_top(rotate_right(t5, p_new_x_parent), p_new_x_parent)))))))

\* The while loop of rb_tree::remove_fixup: [tr, x] when it ends.
RECURSIVE remove_fixup_loop(_, _, _)
remove_fixup_loop(tr, p_x, p_new_x_parent) ==
  IF ~(p_x # tr.parent[m_p_head] /\ is_effectively_black(tr, p_x))
  THEN [tr |-> tr, x |-> p_x]
  ELSE IF p_x = tr.left[p_new_x_parent]
  THEN
    With(IF tr.red[tr.right[p_new_x_parent]]
         THEN rotate_left(
                [tr EXCEPT !.red[tr.right[p_new_x_parent]] = FALSE,
                           !.red[p_new_x_parent] = TRUE],
                p_new_x_parent)
         ELSE tr, LAMBDA t1 :
    With(t1.right[p_new_x_parent], LAMBDA p_w :
    IF is_effectively_black(t1, t1.left[p_w])
       /\ is_effectively_black(t1, t1.right[p_w])
    THEN remove_fixup_loop([t1 EXCEPT !.red[p_w] = TRUE],
                           p_new_x_parent, t1.parent[p_new_x_parent])
    ELSE [tr |-> remove_fixup_left(t1, p_new_x_parent), x |-> p_x]))
  ELSE
    With(IF tr.red[tr.left[p_new_x_parent]]
         THEN rotate_right(
                [tr EXCEPT !.red[tr.left[p_new_x_parent]] = FALSE,
                           !.red[p_new_x_parent] = TRUE],
                p_new_x_parent)
         ELSE tr, LAMBDA t1 :
    With(t1.left[p_new_x_parent], LAMBDA p_w :
    IF is_effectively_black(t1, t1.right[p_w])
       /\ is_effectively_black(t1, t1.left[p_w])
    THEN remove_fixup_loop([t1 EXCEPT !.red[p_w] = TRUE],
                           p_new_x_parent, t1.parent[p_new_x_parent])
    ELSE [tr |-> remove_fixup_right(t1, p_new_x_parent), x |-> p_x]))

remove_fixup(tr, p_x, p_new_x_parent) ==
  With(remove_fixup_loop(tr, p_x, p_new_x_parent), LAMBDA s :
  IF s.x # Nil THEN [s.tr EXCEPT !.red[s.x] = FALSE] ELSE s.tr)

\* remove_node when p_z has at most one child (p_y == p_z): p_x, the child
\* or null, takes its place.
remove_node_splice(tr, p_z, p_x) ==
  With(tr.parent[p_z], LAMBDA p_new_x_parent :
  With(IF p_x # Nil THEN [tr EXCEPT !.parent[p_x] = tr.parent[p_z]] ELSE tr,
       LAMBDA t1 :
  With(IF t1.parent[m_p_head] = p_z
       THEN [t1 EXCEPT !.parent[m_p_head] = p_x]
       ELSE IF t1.left[t1.parent[p_z]] = p_z
       THEN [[t1 EXCEPT !.left[p_z] = t1.parent[p_z]]
                 EXCEPT !.left[t1.parent[p_z]] = p_x]
       ELSE [[t1 EXCEPT !.left[p_z] = Nil]
                 EXCEPT !.right[t1.parent[p_z]] = p_x], LAMBDA t2 :
  With(update_to_top(t2, p_new_x_parent), LAMBDA t3 :
  IF t3.red[p_z] THEN t3 ELSE remove_fixup(t3, p_x, p_new_x_parent)))))

\* remove_node when p_z has two children: its successor p_y is unlinked
\* (p_x, its right child or null, takes its place) and put where p_z was,
\* with p_z's colour.
remove_node_successor(tr, p_z, p_y, p_x) ==
  With([tr EXCEPT !.parent[tr.left[p_z]] = p_y], LAMBDA t1 :
  With([t1 EXCEPT !.left[p_y] = t1.left[p_z]], LAMBDA t2 :
  With(IF p_y # t2.right[p_z] THEN t2.parent[p_y] ELSE p_y, LAMBDA p_new_x_parent :
  With(IF p_y # t2.right[p_z]
       THEN [[[(IF p_x # Nil
                THEN [t2 EXCEPT !.parent[p_x] = t2.parent[p_y]] ELSE t2)
                   EXCEPT !.left[t2.parent[p_y]] = p_x]
                   EXCEPT !.right[p_y] = t2.right[p_z]]
                   EXCEPT !.parent[t2.right[p_z]] = p_y]
       ELSE t2, LAMBDA t3 :
  With(IF t3.parent[m_p_head] = p_z
       THEN [t3 EXCEPT !.parent[m_p_head] = p_y]
       ELSE IF t3.left[t3.parent[p_z]] = p_z
       THEN [t3 EXCEPT !.left[t3.parent[p_z]] = p_y]
       ELSE [t3 EXCEPT !.right[t3.parent[p_z]] = p_y], LAMBDA t4 :
  With([t4 EXCEPT !.parent[p_y] = t4.parent[p_z]], LAMBDA t5 :
  With([t5 EXCEPT !.red[p_y] = t5.red[p_z], !.red[p_z] = t5.red[p_y]], LAMBDA t6 :
  With(update_to_top(t6, p_new_x_parent), LAMBDA t7 :
  IF t7.red[p_z] THEN t7 ELSE remove_fixup(t7, p_x, p_new_x_parent)))))))))

\* rb_tree::remove_node: unlinks p_z.
remove_node(tr, p_z) ==
  With(update_min_max_for_erased_node(tr, p_z), LAMBDA t0 :
  IF t0.left[p_z] = Nil
  THEN remove_node_splice(t0, p_z, t0.right[p_z])
  ELSE IF t0.right[p_z] = Nil
  THEN remove_node_splice(t0, p_z, t0.left[p_z])
  ELSE With(leftmost(t0, t0.right[p_z]), LAMBDA p_y :
       remove_node_successor(t0, p_z, p_y, t0.right[p_y])))

\* bin_search_tree::actual_erase_node: --m_size, the node is destroyed and
\* its storage released (nothing of it is read again).
actual_erase_node(tr, p_z) ==
  [tr EXCEPT !.size = tr.size - 1,
             !.left[p_z] = Nil, !.right[p_z] = Nil, !.parent[p_z] = Nil,
             !.red[p_z] = FALSE, !.meta[p_z] = 0]

erase_node(tr, p_nd) == actual_erase_node(remove_node(tr, p_nd), p_nd)

\* rb_tree::erase(key): [tr, second]
erase(tr, r_key) ==
  With(find(tr, r_key), LAMBDA it :
  IF it = m_p_head THEN [tr |-> tr, second |-> FALSE]
  ELSE [tr |-> erase_node(tr, it), second |-> TRUE])

\* tree_order_statistics_node_update::order_of_key
RECURSIVE order_of_key_loop(_, _, _, _)
order_of_key_loop(tr, r_key, it, ord) ==
  IF it = Nil THEN ord
  ELSE IF Less(r_key, it) THEN order_of_key_loop(tr, r_key, tr.left[it], ord)
  ELSE IF Less(it, r_key)
  THEN order_of_key_loop(tr, r_key, tr.right[it],
         ord + (IF tr.left[it] = Nil THEN 1 ELSE 1 + tr.meta[tr.left[it]]))
  ELSE ord + (IF tr.left[it] = Nil THEN 0 ELSE tr.meta[tr.left[it]])

\* A count that starts at one.
order_of_key_from_one(tr, r_key) ==
  order_of_key_loop(tr, r_key, tr.parent[m_p_head], 1)

order_of_key(tr, r_key) ==
  order_of_key_loop(tr, r_key, tr.parent[m_p_head], 0)

\* tree_order_statistics_node_update::find_by_order: the node, or m_p_head
\* (end()) when the loop falls off the tree.
RECURSIVE find_by_order_loop(_, _, _)
find_by_order_loop(tr, order, it) ==
  IF it = Nil THEN m_p_head
  ELSE With(IF tr.left[it] = Nil THEN 0 ELSE tr.meta[tr.left[it]], LAMBDA o :
       IF order = o THEN it
       ELSE IF order < o THEN find_by_order_loop(tr, order, tr.left[it])
       ELSE find_by_order_loop(tr, order - (o + 1), tr.right[it]))

\* A selection that counts positions from one.
find_by_order_one_based(tr, order) ==
  find_by_order_loop(tr, order - 1, tr.parent[m_p_head])

find_by_order(tr, order) == find_by_order_loop(tr, order, tr.parent[m_p_head])

\* The values met from begin() to end() with operator++.
RECURSIVE traverse(_, _, _)
traverse(tr, it, fuel) ==
  IF it = m_p_head \/ fuel = 0 THEN <<>>
  ELSE <<it>> \o traverse(tr, inc(tr, it), fuel - 1)

in_order(tr) == traverse(tr, tr.left[m_p_head], MaxKey + 1)

(***************************************************************************)
(* Calls on the set.                                                       *)
(***************************************************************************)
SetInit ==
  /\ os = initialize
  /\ keys = {}
  /\ erased = FALSE
  /\ lastOp = [op |-> "new", arg |-> 0, second |-> FALSE]

Insert(v) ==
  /\ LET p == insert(os, v) IN
       /\ os' = p.tr
       /\ lastOp' = [op |-> "insert", arg |-> v, second |-> p.second]
  /\ keys' = keys \cup {v}
  /\ UNCHANGED erased

Erase(v) ==
  /\ LET p == erase(os, v) IN
       /\ os' = p.tr
       /\ lastOp' = [op |-> "erase", arg |-> v, second |-> p.second]
  /\ keys' = keys \ {v}
  /\ erased' = TRUE

SetNext ==
  \/ \E v \in Keys : Insert(v) /\ UNCHANGED <<numVars, randVars, mainVars>>
  \/ \E v \in Keys : Erase(v) /\ UNCHANGED <<numVars, randVars, mainVars>>


(***************************************************************************)
(* int (#define int long long): two's complement, IntBits wide.            *)
(***************************************************************************)
IntMax   == Pow2(IntBits - 1) - 1
IntMin   == -Pow2(IntBits - 1)
IntRange == IntMin..IntMax
NonNeg   == 0..IntMax

Abs(v) == IF v < 0 THEN -v ELSE v

\* The built-in / of int: the quotient truncated towards zero (q # 0).
CDiv(p, q) ==
  IF (p >= 0) = (q > 0) THEN Abs(p) \div Abs(q) ELSE -(Abs(p) \div Abs(q))

\* The built-in % of int: the sign of the dividend (q # 0).
CRem(p, q) == p - q * CDiv(p, q)

\* int gcd(int a, int b) { return b == 0 ? a : gcd(b, a % b); }
RECURSIVE gcd(_, _)
gcd(u, v) == IF v = 0 THEN u ELSE gcd(v, CRem(u, v))

\* A recursive call with its arguments in the other order: gcd(a % b, b).
gcd_args_swapped(u, v) == <<CRem(u, v), v>>

\* The arguments of the recursive call gcd(b, a % b).
gcd_args(u, v) == <<v, CRem(u, v)>>

\* A base case that returns b.
gcd_base_second(u, v) == v

\* The value gcd returns when b == 0.
gcd_base(u, v) == u

\* A division by b.
lcm_divisor_second(u, v) == v

\* The divisor in lcm: gcd(a, b).
lcm_divisor(u, v) == gcd(u, v)

\* A product without the division.
lcm_value_product(u, v) == u * v

\* (a / gcd(a, b)) * b over the integers (the divisor is not zero).
lcm_value(u, v) == CDiv(u, lcm_divisor(u, v)) * v

\* int lcm(int a, int b) { return (a / gcd(a, b)) * b; }
\* The outcomes of a call: division by zero and signed overflow are
\* undefined, and the call may then yield anything.
lcm(u, v) ==
  IF lcm_divisor(u, v) = 0
  THEN {[kind |-> "div_by_zero", v |-> w] : w \in IntRange}
  ELSE IF lcm_value(u, v) \in IntRange
  THEN {[kind |-> "ok", v |-> lcm_value(u, v)]}
  ELSE {[kind |-> "overflow", v |-> w] : w \in IntRange}

NoRes == [kind |-> "none", v |-> 0]

NumInit ==
  /\ A = 0 /\ B = 0 /\ X = 0 /\ Y = 0
  /\ depth = 0
  /\ npc = "idle"
  /\ res = NoRes

\* A caller invokes gcd(u, v).
GcdCall(u, v) ==
  /\ npc = "idle"
  /\ A' = u /\ B' = v /\ X' = u /\ Y' = v
  /\ depth' = 0
  /\ npc' = "gcd"
  /\ res' = NoRes

\* b != 0: the activation calls gcd(b, a % b).
GcdRecurse ==
  /\ npc = "gcd"
  /\ Y # 0
  /\ X' = gcd_args(X, Y)[1]
  /\ Y' = gcd_args(X, Y)[2]
  /\ depth' = depth + 1
  /\ UNCHANGED <<A, B, npc, res>>

\* b == 0: the activation returns a, and so does every caller above it.
GcdReturn ==
  /\ npc = "gcd"
  /\ Y = 0
  /\ res' = [kind |-> "ok", v |-> gcd_base(X, Y)]
  /\ npc' = "gcd_ret"
  /\ UNCHANGED <<A, B, X, Y, depth>>

\* A caller invokes lcm(u, v), which returns (or the behaviour is undefined).
LcmCall(u, v) ==
  /\ npc = "idle"
  /\ A' = u /\ B' = v /\ X' = 0 /\ Y' = 0
  /\ depth' = 0
  /\ npc' = "lcm_ret"
  /\ res' \in lcm(u, v)

\* The caller takes the value and goes on.
NumResume ==
  /\ npc \in {"gcd_ret", "lcm_ret"}
  /\ npc' = "idle"
  /\ A' = 0 /\ B' = 0 /\ X' = 0 /\ Y' = 0
  /\ depth' = 0
  /\ res' = NoRes

NumNext ==
  \/ \E u, v \in NonNeg : GcdCall(u, v) /\ UNCHANGED <<setVars, randVars, mainVars>>
  \/ GcdRecurse /\ UNCHANGED <<setVars, randVars, mainVars>>
  \/ GcdReturn /\ UNCHANGED <<setVars, randVars, mainVars>>
  \/ \E u, v \in NonNeg : LcmCall(u, v) /\ UNCHANGED <<setVars, randVars, mainVars>>
  \/ NumResume /\ UNCHANGED <<setVars, randVars, mainVars>>

(***************************************************************************)
(* mt19937 rng(...); int randInt(int l, int r)                             *)
(* The generator is kept as the word its next invocation yields, Unknown   *)
(* once a call has drawn from it: what it yields then is not constrained.  *)
(* uniform_int_distribution<int> is the library's: Lemire's method when    *)
(* the range is narrower than the generator's, the recursive composition   *)
(* of two draws when it is wider.                                          *)
(***************************************************************************)
GenMax   == Pow2(GenBits) - 1
GenWords == 0..GenMax
Unknown  == -1

\* int -> unsigned, unsigned -> int (modulo 2^IntBits)
Wrap(u)       == u % Pow2(IntBits)
ToUnsigned(v) == v % Pow2(IntBits)
ToSigned_unsigned(u) == u
ToSigned(u)   == IF u > IntMax THEN u - Pow2(IntBits) ELSE u

\* The words a draw can yield: the pending word if this is the first draw
\* of the call, any word afterwards.
Draws(first) == IF first = Unknown THEN GenWords ELSE {first}

\* A do-while that draws until a candidate is accepted: the values it can
\* end with.  one(first) are the candidates [ok, v] of one iteration.
Rejection(one(_), first) ==
  {c.v : c \in {d \in one(first) : d.ok}}
    \cup (IF \E d \in one(first) : ~d.ok
          THEN {c.v : c \in {d \in one(Unknown) : d.ok}} ELSE {})

\* uniform_int_distribution::_S_nd (U = generator word, W twice as wide)
S_nd(first, range) ==
  LET threshold == (Pow2(GenBits) - range) % range
      one(f) == {[ok |-> LET low == (g * range) % Pow2(GenBits)
                         IN  ~(low < range /\ low < threshold),
                  v  |-> (g * range) \div Pow2(GenBits)] : g \in Draws(f)}
  IN  Rejection(one, first)

\* uniform_int_distribution::operator()(urng, param_type(a, b)), a <= b:
\* the values it can return.
RECURSIVE uniform_int_distribution(_, _, _)
uniform_int_distribution(p_a, p_b, first) ==
  LET urngrange == GenMax
      urange    == Wrap(ToUnsigned(p_b) - ToUnsigned(p_a))
      uerngrange == urngrange + 1
      tmp(h)    == Wrap(uerngrange * ToUnsigned(h))
      up(f) == {[ok |-> ~(Wrap(tmp(h) + g) > urange \/ Wrap(tmp(h) + g) < tmp(h)),
                 v  |-> Wrap(tmp(h) + g)] :
                  h \in uniform_int_distribution(0, urange \div uerngrange, f),
                  g \in GenWords}
      rets == IF urngrange > urange THEN S_nd(first, urange + 1)
              ELSE IF urngrange < urange THEN Rejection(up, first)
              ELSE Draws(first)
  IN  {ToSigned(Wrap(u + ToUnsigned(p_a))) : u \in rets}

\* int randInt(int l, int r) { return uniform_int_distribution<int>(l, r)(rng); }
\* The distribution requires l <= r.  With l > r the behaviour is undefined:
\* a build with the library's assertions aborts in the constructor, a build
\* without them runs operator() on the range b - a wrapped around.
randInt(p_l, p_r, first) ==
  {[kind |-> "value", v |-> w] : w \in uniform_int_distribution(p_l, p_r, first)}
    \cup (IF p_l <= p_r THEN {} ELSE {[kind |-> "abort", v |-> 0]})

NoRet == [kind |-> "none", v |-> 0]

\* rng has been seeded from the clock before main runs.
RandInit ==
  /\ rng \in GenWords
  /\ L = 0 /\ R = 0
  /\ ret = NoRet
  /\ rpc = "idle"

\* A caller invokes randInt(p_l, p_r).
RandCall(p_l, p_r) ==
  /\ rpc = "idle"
  /\ L' = p_l /\ R' = p_r
  /\ rpc' = "randInt"
  /\ UNCHANGED <<rng, ret>>

\* The body runs and returns (or the process is aborted).  The generator has
\* advanced past the words the call drew: its next word is any word.
RandReturn ==
  /\ rpc = "randInt"
  /\ ret' \in randInt(L, R, rng)
  /\ rng' = Unknown
  /\ rpc' = IF ret'.kind = "abort" THEN "aborted" ELSE "returned"
  /\ UNCHANGED <<L, R>>

\* The caller takes the value and goes on.
RandResume ==
  /\ rpc = "returned"
  /\ rpc' = "idle"
  /\ L' = 0 /\ R' = 0
  /\ ret' = NoRet
  /\ UNCHANGED rng

RandNext ==
  \/ \E p_l, p_r \in IntRange :
       RandCall(p_l, p_r) /\ UNCHANGED <<setVars, numVars, mainVars>>
  \/ RandReturn /\ UNCHANGED <<setVars, numVars, mainVars>>
  \/ RandResume /\ UNCHANGED <<setVars, numVars, mainVars>>

(***************************************************************************)
(* The process: static initialisation (rng), then main.                    *)
(***************************************************************************)
\* Two test cases.
t_initial_two == 1 + 1

\* int t = 1;
t_initial == 1

\* void solve() { }: what it leaves on standard output.
solve(out) == out

\* The condition of while (t--): the value of t before the decrement.
while_cond(tv) == tv # 0

\* return 0;
main_return == 0

MainInit ==
  /\ ONLINE_JUDGE \in BOOLEAN
  /\ pc = "static_init"
  /\ main_t = 0
  /\ streams = [sync |-> TRUE, cin_tie |-> "cout", cout_tie |-> "none",
                stdin |-> "console", stdout |-> "console", stderr |-> "console"]
  /\ solved = 0
  /\ written = 0
  /\ status = "running"

\* mt19937 rng(chrono::steady_clock::now().time_since_epoch().count());
StaticInit ==
  /\ pc = "static_init"
  /\ rng' \in GenWords
  /\ pc' = "sync_with_stdio"
  /\ UNCHANGED <<L, R, ret, rpc, ONLINE_JUDGE, main_t, streams, solved, written, status>>

\* ios::sync_with_stdio(false);
SyncWithStdio ==
  /\ pc = "sync_with_stdio"
  /\ streams' = [streams EXCEPT !.sync = FALSE]
  /\ pc' = "cin_tie"
  /\ UNCHANGED <<randVars, ONLINE_JUDGE, main_t, solved, written, status>>

\* cin.tie(0);
CinTie ==
  /\ pc = "cin_tie"
  /\ streams' = [streams EXCEPT !.cin_tie = "none"]
  /\ pc' = "cout_tie"
  /\ UNCHANGED <<randVars, ONLINE_JUDGE, main_t, solved, written, status>>

\* cout.tie(0); the freopen calls follow only #ifndef ONLINE_JUDGE
CoutTie ==
  /\ pc = "cout_tie"
  /\ streams' = [streams EXCEPT !.cout_tie = "none"]
  /\ pc' = IF ONLINE_JUDGE THEN "t_init" ELSE "freopen_stdin"
  /\ UNCHANGED <<randVars, ONLINE_JUDGE, main_t, solved, written, status>>

\* freopen("input.txt", "r", stdin); the result is not looked at.  A failed
\* freopen leaves the stream closed.
FreopenStdin ==
  /\ pc = "freopen_stdin"
  /\ \E ok \in BOOLEAN :
       streams' = [streams EXCEPT !.stdin = IF ok THEN "input.txt" ELSE "closed"]
  /\ pc' = "freopen_stdout"
  /\ UNCHANGED <<randVars, ONLINE_JUDGE, main_t, solved, written, status>>

\* freopen("output.txt", "w", stdout);
FreopenStdout ==
  /\ pc = "freopen_stdout"
  /\ \E ok \in BOOLEAN :
       streams' = [streams EXCEPT !.stdout = IF ok THEN "output.txt" ELSE "closed"]
  /\ pc' = "freopen_stderr"
  /\ UNCHANGED <<randVars, ONLINE_JUDGE, main_t, solved, written, status>>

\* freopen("debug.txt", "w", stderr);
FreopenStderr ==
  /\ pc = "freopen_stderr"
  /\ \E ok \in BOOLEAN :
       streams' = [streams EXCEPT !.stderr = IF ok THEN "debug.txt" ELSE "closed"]
  /\ pc' = "t_init"
  /\ UNCHANGED <<randVars, ONLINE_JUDGE, main_t, solved, written, status>>

\* int t = 1;   (// cin >> t; is a comment)
TInit ==
  /\ pc = "t_init"
  /\ main_t' = t_initial
  /\ pc' = "while"
  /\ UNCHANGED <<randVars, ONLINE_JUDGE, streams, solved, written, status>>

\* while (t--): t is decremented whether or not the body runs.
While ==
  /\ pc = "while"
  /\ main_t' = main_t - 1
  /\ pc' = IF while_cond(main_t) THEN "solve" ELSE "return"
  /\ UNCHANGED <<randVars, ONLINE_JUDGE, streams, solved, written, status>>

\* solve();
Solve ==
  /\ pc = "solve"
  /\ solved' = solved + 1
  /\ written' = solve(written)
  /\ pc' = "while"
  /\ UNCHANGED <<randVars, ONLINE_JUDGE, main_t, streams, status>>

\* return 0;
Return ==
  /\ pc = "return"
  /\ status' = main_return
  /\ pc' = "exited"
  /\ UNCHANGED <<randVars, ONLINE_JUDGE, main_t, streams, solved, written>>

MainNext ==
  \/ StaticInit /\ UNCHANGED <<setVars, numVars>>
  \/ SyncWithStdio /\ UNCHANGED <<setVars, numVars>>
  \/ CinTie /\ UNCHANGED <<setVars, numVars>>
  \/ CoutTie /\ UNCHANGED <<setVars, numVars>>
  \/ FreopenStdin /\ UNCHANGED <<setVars, numVars>>
  \/ FreopenStdout /\ UNCHANGED <<setVars, numVars>>
  \/ FreopenStderr /\ UNCHANGED <<setVars, numVars>>
  \/ TInit /\ UNCHANGED <<setVars, numVars>>
  \/ While /\ UNCHANGED <<setVars, numVars>>
  \/ Solve /\ UNCHANGED <<setVars, numVars>>
  \/ Return /\ UNCHANGED <<setVars, numVars>>

(***************************************************************************)
(* Specifications.  A fragment that a specification does not exercise is   *)
(* held in one state: the set empty, no numeric call made, rng seeded, the *)
(* process of a judge build inside solve.                                  *)
(***************************************************************************)
InSolve ==
  /\ ONLINE_JUDGE = TRUE
  /\ pc = "solve"
  /\ main_t = 0
  /\ streams = [sync |-> FALSE, cin_tie |-> "none", cout_tie |-> "none",
                stdin |-> "console", stdout |-> "console", stderr |-> "console"]
  /\ solved = 0
  /\ written = 0
  /\ status = "running"

RandIdle == RandInit /\ rng = 0

\* rng before static initialisation has run.
RandUnseeded ==
  /\ rng = Unknown
  /\ L = 0 /\ R = 0
  /\ ret = NoRet
  /\ rpc = "idle"

\* ordered_set<int>
Init == SetInit /\ NumInit /\ RandIdle /\ InSolve
Next == SetNext
Spec == Init /\ [][Next]_vars

\* gcd and lcm
NumSpecInit == SetInit /\ NumInit /\ RandIdle /\ InSolve
NumSpec == NumSpecInit /\ [][NumNext]_vars

\* A call that has started keeps running: gcd has no blocking step.
NumFair == NumSpec /\ WF_numVars(GcdRecurse) /\ WF_numVars(GcdReturn)

\* rng and randInt
RandSpecInit == SetInit /\ NumInit /\ RandInit /\ InSolve
RandSpec == RandSpecInit /\ [][RandNext]_vars

\* the process from its start
MainSpecInit == SetInit /\ NumInit /\ RandUnseeded /\ MainInit
MainSpec == MainSpecInit /\ [][MainNext]_vars

\* main has no blocking step: a process that can take a step takes one.
MainFair == MainSpec /\ WF_vars(MainNext)

(***************************************************************************)
(* Properties of ordered_set<int>, checked under Spec.  keys is the set of *)
(* values a client holds after its calls, erased whether it has erased.    *)
(***************************************************************************)
\* The number of members of S strictly below v.
Below(S, v) == Cardinality({w \in S : w < v})

\* The member of S with k members below it (k < |S|).
KthSmallest(S, k) == CHOOSE w \in S : Below(S, w) = k

\* C1: after any sequence of insertions into an initially empty set, for
\* every inserted value e, order_of_key(e) is the number of distinct
\* inserted values strictly less than e.
C1_RankOfInserted ==
  ~erased => \A e \in keys : order_of_key(os, e) = Below(keys, e)

\* Every value has been inserted, one of them again, and no erase was called.
C1_Witness ==
  /\ ~erased
  /\ keys = Keys
  /\ lastOp.op = "insert" /\ ~lastOp.second
  /\ order_of_key(os, MaxKey) = MaxKey - 1

\* C2: after any sequence of insertions, for 0 <= k < size(),
\* find_by_order(k) is the (k+1)-th smallest distinct inserted value; and
\* inserting a value already present changes no selection.
C2_SelectKth ==
  /\ [](~erased => \A k \in 0..(Cardinality(keys) - 1) :
                      find_by_order(os, k) = KthSmallest(keys, k))
  /\ [][(lastOp'.op = "insert" /\ lastOp'.arg \in keys)
          => /\ os'.size = os.size
             /\ \A k \in 0..MaxKey : find_by_order(os', k) = find_by_order(os, k)]_vars

\* A value already present has just been inserted again into a set of at
\* least three values, and selection still finds the largest one last.
C2_Witness ==
  /\ ~erased
  /\ Cardinality(keys) >= 3
  /\ lastOp.op = "insert" /\ ~lastOp.second /\ lastOp.arg \in keys
  /\ find_by_order(os, os.size - 1) = KthSmallest(keys, Cardinality(keys) - 1)

\* C3: for every element x the set holds, find_by_order(order_of_key(x)) is
\* x; for every k with 0 <= k < size(), order_of_key(find_by_order(k)) is k.
C3_Inverses ==
  /\ \A v \in Keys : find(os, v) # m_p_head
                       => find_by_order(os, order_of_key(os, v)) = v
  /\ \A k \in 0..(os.size - 1) : order_of_key(os, find_by_order(os, k)) = k

\* A set of at least four values, reached through an erasure, whose third
\* position holds a value other than 3.
C3_Witness ==
  /\ os.size >= 4
  /\ erased
  /\ find_by_order(os, 2) # 3
  /\ order_of_key(os, find_by_order(os, 2)) = 2

\* C8: after any sequence of insert and erase calls, the set holds each key
\* at most once, its in-order traversal is strictly increasing, and for any
\* x (held or not) order_of_key(x) is the number of held keys strictly less
\* than x.
C8_SetAfterErase ==
  /\ os.size = Cardinality(keys)
  /\ Len(in_order(os)) = Cardinality(keys)
  /\ {in_order(os)[i] : i \in 1..Len(in_order(os))} = keys
  /\ \A i \in 1..(Len(in_order(os)) - 1) : in_order(os)[i] < in_order(os)[i + 1]
  /\ \A v \in 0..(MaxKey + 1) : order_of_key(os, v) = Below(keys, v)

\* A held key has just been erased, at least three keys remain, and a key
\* that is not held has two held keys below it.
C8_Witness ==
  /\ lastOp.op = "erase" /\ lastOp.second
  /\ Cardinality(keys) >= 3
  /\ \E v \in Keys \ keys : order_of_key(os, v) = 2

(***************************************************************************)
(* Properties of gcd and lcm, checked under NumSpec and NumFair.           *)
(***************************************************************************)
\* The greatest common divisor of two non-negative integers, gcd(0, 0) = 0.
RefGcd(u, v) ==
  IF u = 0 /\ v = 0 THEN 0
  ELSE CHOOSE d \in 1..(u + v) :
         /\ u % d = 0 /\ v % d = 0
         /\ \A e \in 1..(u + v) : (u % e = 0 /\ v % e = 0) => e <= d

\* C4: for all non-negative a and b, gcd(a, 0) is a, gcd(a, b) is
\* gcd(b, a mod b) when b > 0, and the value returned is the greatest common
\* divisor of a and b (0 for gcd(0, 0)).
C4_GcdValue ==
  npc = "gcd_ret" =>
    /\ res.kind = "ok"
    /\ B = 0 => res.v = A
    /\ B > 0 => res.v = gcd(B, A % B)
    /\ res.v = RefGcd(A, B)

\* gcd(a, b) with a < b has returned a divisor above 1 after three
\* recursive calls.
C4_Witness ==
  /\ npc = "gcd_ret"
  /\ 0 < A /\ A < B
  /\ depth >= 3
  /\ res.v > 1

\* C5 as stated: for all positive a and b, lcm(a, b) * gcd(a, b) == a * b.
C5_Original ==
  (npc = "lcm_ret" /\ A > 0 /\ B > 0) => res.v * gcd(A, B) = A * B

\* C5: for all positive a and b whose least common multiple a * b / gcd(a, b)
\* is representable in int, lcm(a, b) does not overflow and
\* lcm(a, b) * gcd(a, b) == a * b over the integers.
C5_LcmTimesGcd ==
  (npc = "lcm_ret" /\ A > 0 /\ B > 0 /\ (A * B) \div RefGcd(A, B) <= IntMax)
    => /\ res.kind = "ok"
       /\ res.v * gcd(A, B) = A * B

\* lcm has returned for two different arguments with a common divisor above
\* 1 whose product is not representable but whose common multiple is.
C5_Witness ==
  /\ npc = "lcm_ret"
  /\ A > 1 /\ B > A
  /\ RefGcd(A, B) > 1
  /\ A * B > IntMax
  /\ res.kind = "ok"
  /\ res.v * RefGcd(A, B) = A * B

\* C9: the recursion of gcd on non-negative arguments terminates: at every
\* recursive call the second argument is non-negative and strictly smaller
\* than before, and every call returns.
C9_GcdTerminates ==
  /\ [][(npc = "gcd" /\ npc' = "gcd" /\ depth' = depth + 1)
          => (Y' >= 0 /\ Y' < Y)]_<<npc, depth, Y>>
  /\ (npc = "gcd" ~> npc = "gcd_ret")

\* A call three recursive calls deep whose second argument is still not 0.
C9_Witness ==
  /\ npc = "gcd"
  /\ depth >= 3
  /\ Y > 0

\* C10: for non-negative a and b, lcm divides by zero exactly when both are
\* 0; when exactly one of them is 0 the divisor gcd(a, b) is not 0 and lcm
\* returns 0.
C10_LcmZero ==
  npc = "lcm_ret" =>
    /\ (res.kind = "div_by_zero") <=> (A = 0 /\ B = 0)
    /\ ((A = 0) # (B = 0)) => (gcd(A, B) # 0 /\ res = [kind |-> "ok", v |-> 0])

\* lcm(a, 0) with a > 0 has returned 0.
C10_Witness ==
  /\ npc = "lcm_ret"
  /\ A > 0 /\ B = 0
  /\ res = [kind |-> "ok", v |-> 0]

(***************************************************************************)
(* Properties of randInt, checked under RandSpec.                          *)
(***************************************************************************)
\* C6 as stated: every call randInt(l, r) returns a value v with
\* l <= v <= r.
C6_Original ==
  rpc \in {"returned", "aborted"}
    => (ret.kind = "value" /\ L <= ret.v /\ ret.v <= R)

\* C6: every call randInt(l, r) with l <= r returns a value v with
\* l <= v <= r.
C6_RandIntInRange ==
  (rpc \in {"returned", "aborted"} /\ L <= R)
    => (ret.kind = "value" /\ L <= ret.v /\ ret.v <= R)

\* A call over a range wider than the generator's, from a negative l to a
\* positive r, has returned r.
C6_Witness ==
  /\ rpc = "returned"
  /\ L < 0 /\ R > 0
  /\ R - L > GenMax
  /\ ret = [kind |-> "value", v |-> R]

(***************************************************************************)
(* Properties of main, checked under MainFair.                             *)
(***************************************************************************)
\* The stream set-up of main is complete.
SetupDone ==
  /\ ~streams.sync
  /\ streams.cin_tie = "none" /\ streams.cout_tie = "none"
  /\ IF ONLINE_JUDGE
     THEN streams.stdin = "console" /\ streams.stdout = "console"
          /\ streams.stderr = "console"
     ELSE streams.stdin \in {"input.txt", "closed"}
          /\ streams.stdout \in {"output.txt", "closed"}
          /\ streams.stderr \in {"debug.txt", "closed"}

\* C7: every run of main, with or without ONLINE_JUDGE, completes the stream
\* set-up before solve is called, calls solve exactly once and terminates
\* with exit status 0; nothing is written to standard output, and no run
\* exits with another status.
C7_MainRun ==
  /\ []((pc = "solve" \/ solved > 0) => SetupDone)
  /\ [](solved <= 1 /\ written = 0)
  /\ [](IF pc = "exited" THEN status = 0 /\ solved = 1 ELSE status = "running")
  /\ [][solved' # solved => (pc = "solve" /\ streams' = streams)]_vars
  /\ <>(pc = "exited")

\* A run without ONLINE_JUDGE whose three freopen calls succeeded has
\* exited after one call of solve.
C7_Witness ==
  /\ pc = "exited"
  /\ ~ONLINE_JUDGE
  /\ streams.stdin = "input.txt" /\ streams.stdout = "output.txt"
  /\ streams.stderr = "debug.txt"
  /\ solved = 1
  /\ status = 0

=============================================================================
